---- MODULE Spec2Model ----
(***************************************************************************)
(* Authentication and token lifecycle of the Mirai extensions:             *)
(*   - the 401 response interceptor of JiraApiService (token refresh gate) *)
(*   - MiraiAuthenticationProvider        (/auth-callback)                 *)
(*   - MiraiGitHubAuthenticationProvider  (/github-callback)               *)
(*   - FigmaOAuthService.authenticate     (/oauth-callback)                *)
(* Every await of the source is a suspension point: the code between two   *)
(* awaits is one action.                                                   *)
(***************************************************************************)
EXTENDS Integers, Sequences, FiniteSets, TLC

\* ------------------------------------------------------------------ bounds
NumReqs == 3
\* requests issued through the Jira client

Reqs == 1..NumReqs

MaxFlows == 2
\* authorization flows started per provider

Flows == 1..MaxFlows

MaxEvents == 2
\* personal access tokens are added until this many session events have fired

Nonces == {1, 2}
\* values of the random state generators (Math.random may repeat a value)

Users == {1, 2}
\* account ids the servers report

AccessTokens == {1, 2}
\* access tokens carried by a GitHub callback token

FlowScopes == {"repo"}
\* the scopes createSession is called with (part_006:53, 133; part_005:41, 65); the
\* GitHub callbacks of the model carry no scope parameter, so the session gets
\* pendingAuth.scopes (part_005:156)

ScopeFilters == SUBSET {"repo", "read:user"}
\* the scopes getSessions is called with

NoToken == 0
\* the empty string '' of the configuration ("no token stored")

None == 0
\* null / undefined

VARIABLES
    \* ---- JiraApiService (src/unnamed/part_010)
    isRefreshing,       \* private isRefreshing
    failedQueue,        \* private failedQueue, a sequence of queued requests
    oauthAccessToken,   \* config 'oauthAccessToken'
    oauthRefreshToken,  \* config 'oauthRefreshToken'
    apiToken,           \* config 'baseUrl', 'email' and 'apiToken' are all set
    released,           \* history: the callers the last forEach over failedQueue released, in order
    reqPc,              \* where each request is
    reqRetry,           \* originalRequest._retry
    reqAuth,            \* originalRequest.headers['Authorization']
    reqErr,             \* the error a request was rejected with
    newTokens,          \* the tokens the refresh call of an initiator returned
    refreshError,       \* refreshError caught by an initiator
    issued,             \* number of tokens the token endpoint has issued
    \* history of the gate
    window,             \* number of refresh windows opened so far
    joined,             \* the window a request entered (as initiator or queued)
    winCalls,           \* refresh network calls made in each window
    winResult,          \* "open", "ok" or "fail"
    winToken,           \* the access token a window's refresh returned
    attempts,           \* how often a request was sent
    joins,              \* how often a request started or joined a refresh
    prompts,            \* how often the re-authentication prompt was shown per window
    \* ---- MiraiAuthenticationProvider (src/unnamed/part_006)
    mPendingAuth,       \* _pendingAuth: the flow whose resolve/reject it holds, or None
    mFlow,              \* where each createSession call is
    mErr,               \* the error a createSession call was rejected with
    mState,             \* the state generated for a flow
    mNotice,            \* the sign-in notification of a flow is still shown
    mTemp,              \* the temporary token the callback promise resolved with
    mSessions,          \* _sessions
    mStored,            \* globalState 'mirai-sessions'
    mEvents,            \* number of events fired on _sessionChangeEmitter
    mLastEvent,         \* the kind and the session of the last event fired
    mSession,           \* const session of a createSession call, once it is built
    mRemoving,          \* sessions spliced by removeSession calls awaiting storeSessions
    mRefreshing,        \* ids of the sessions refreshSession calls await storeSessions for
    mLastRemoved,       \* history: the id of the removeSession call that completed
                        \* last, None once _sessions changed again
    \* ---- MiraiGitHubAuthenticationProvider (src/unnamed/part_005)
    gPendingAuth,       \* _pendingAuth: the flow whose resolve/reject it holds, or None
    gFlow,              \* where each createSession call is
    gErr,               \* the error a createSession call was rejected with
    gState,             \* the state generated for a flow
    gTimeout,           \* the 5 minute timer of a flow is armed
    gStoring,           \* the session a handleCallback is storing for a flow
    gSessions,          \* globalState 'mirai.github.sessions'
    gEvents,            \* number of events fired on _onDidChangeSessions
    gLastEvent,         \* the kind and the session of the last event fired
    gReplaced,          \* history: the session a callback stored replaced one
    gPat,               \* secret 'mirai.github.pat'
    gPatInfo,           \* globalState 'mirai.github.pat.info'
    gPatCall,           \* the last createSessionFromPAT call: step, token, user
    gPatRemove,         \* the removeSession('pat') call in flight: step, PAT session read
    gRemoving,          \* sessions removed by removeSession calls awaiting the update
    \* ---- FigmaOAuthService, one instance per sign-in command
    \*      (src/extensions/mirai-figma/src/services/figmaOAuthService.ts)
    fFlow,              \* where each authenticate() call is
    fErr,               \* the error an authenticate() call was rejected with
    fHandler,           \* this.uriHandler of the instance is set (registered)
    fTimer,             \* the 5 minute timer of the call is pending
    fExchanging,        \* exchangeCodeForToken of the call is in flight
    figmaAccessToken,   \* config 'mirai-figma' accessToken
    fLog,               \* entries of the debug log written by exchangeCodeForToken
    fApiLog,            \* values written by the debug log of getRecentFiles
    \* ---- GlobalAuthService
    \*      (src/src/vs/workbench/contrib/void/common/globalAuthService.ts)
    aPc,                \* where each refreshAuthState call is
    aSessions,          \* the sessions the getSessions call of each refreshAuthState call got
    aState,             \* _isAuthenticated, _miraiToken, _miraiUser
    aSeen               \* session-change events of provider 'mirai' the listener has received

gateVars == <<isRefreshing, failedQueue, oauthAccessToken, oauthRefreshToken, apiToken,
              released,
              reqPc, reqRetry, reqAuth, reqErr, newTokens, refreshError, issued,
              window, joined, winCalls, winResult, winToken, attempts, joins, prompts>>

miraiVars == <<mPendingAuth, mFlow, mErr, mState, mNotice, mTemp, mSessions, mStored,
               mEvents, mLastEvent, mSession, mRemoving, mRefreshing, mLastRemoved>>

githubVars == <<gPendingAuth, gFlow, gErr, gState, gTimeout, gStoring, gSessions,
                gEvents, gLastEvent, gReplaced, gPat, gPatInfo, gPatCall, gPatRemove,
                gRemoving>>

figmaVars == <<fFlow, fErr, fHandler, fTimer, fExchanging, figmaAccessToken,
               fLog, fApiLog>>

globalVars == <<aPc, aSessions, aState, aSeen>>

vars == <<gateVars, miraiVars, githubVars, figmaVars, globalVars>>

\* each component leaves the state of the others alone
GateOnly == UNCHANGED <<miraiVars, githubVars, figmaVars, globalVars>>

MiraiOnly == UNCHANGED <<gateVars, githubVars, figmaVars, globalVars>>

GitHubOnly == UNCHANGED <<gateVars, miraiVars, figmaVars, globalVars>>

FigmaOnly == UNCHANGED <<gateVars, miraiVars, githubVars>> /\ UNCHANGED globalVars

\* ------------------------------------------------------------ refresh gate
Range(s) == {s[i] : i \in 1..Len(s)}

InitGate ==
    /\ isRefreshing = FALSE
    /\ failedQueue = <<>>
    /\ oauthAccessToken = 1
    /\ oauthRefreshToken \in {NoToken, 1}
    /\ apiToken \in BOOLEAN
    /\ released = <<>>
    /\ reqPc = [r \in Reqs |-> "idle"]
    /\ reqRetry = [r \in Reqs |-> FALSE]
    /\ reqAuth = [r \in Reqs |-> NoToken]
    /\ reqErr = [r \in Reqs |-> <<"none", 0>>]
    /\ newTokens = [r \in Reqs |-> <<NoToken, NoToken>>]
    /\ refreshError = [r \in Reqs |-> <<"none", 0>>]
    /\ issued = 1
    /\ window = 0
    /\ joined = [r \in Reqs |-> 0]
    /\ winCalls = [w \in Reqs |-> 0]
    /\ winResult = [w \in Reqs |-> "open"]
    /\ winToken = [w \in Reqs |-> NoToken]
    /\ attempts = [r \in Reqs |-> 0]
    /\ joins = [r \in Reqs |-> 0]
    /\ prompts = [w \in Reqs |-> 0]

\* the OAuth sign-in stored a cloudId next to the tokens (part_009:166-168)
CloudIdSet == TRUE

\* setupClient, run by the constructor and by the configuration watcher on every
\* change of 'mirai-jira': the kind of client it leaves in this.client
\* (part_010:800-852)
client ==
    IF oauthAccessToken # NoToken /\ CloudIdSet THEN "oauth"
    ELSE IF apiToken THEN "token"
    ELSE "none"

\* isConfigured(): this.client !== null (part_010:951-953)
isConfigured == client # "none"

\* getAuthMethod() (part_010:1473-1487)
getAuthMethod ==
    IF oauthAccessToken # NoToken /\ CloudIdSet THEN "oauth"
    ELSE IF apiToken THEN "token"
    ELSE "none"

\* mutant: the failure path leaves the access token in the configuration
ClearedAccessToken_kept == oauthAccessToken

\* the '' written over the access token after a failed refresh (part_010:927)
ClearedAccessToken == NoToken

\* mutant: the _retry mark is never consulted
AlreadyRetried_ignored(r) == FALSE

\* an authorization failure is handled only once per request (part_010:865)
AlreadyRetried(r) == reqRetry[r]

\* mutant: a 401 never finds a refresh in progress
RefreshInProgress_never == FALSE

\* "If we're already refreshing, queue this request" (part_010:871)
RefreshInProgress == isRefreshing

\* the token a queued caller retries with, read from the configuration (part_010:876)
QueuedRetryToken == oauthAccessToken

\* the refresh token the initiator reads (part_010:886)
StoredRefreshToken == oauthRefreshToken

\* mutant: the queue is walked from its last entry to its first
RECURSIVE forEach_reversed(_)
forEach_reversed(queue) ==
    IF queue = <<>> THEN <<>>
    ELSE Append(forEach_reversed(Tail(queue)), Head(queue))

\* failedQueue.forEach(cb): the entries in the order cb is called for them, which is
\* the order their callers continue in (part_010:908-910, 921-923)
RECURSIVE forEach(_)
forEach(queue) ==
    IF queue = <<>> THEN <<>>
    ELSE <<Head(queue)>> \o forEach(Tail(queue))

\* failedQueue.forEach(({ reject }) => reject(refreshError)) (part_010:921-923)
RejectedPc(err) ==
    [q \in Reqs |-> IF q \in Range(failedQueue) THEN "rejected" ELSE reqPc[q]]

RejectedErr(err) ==
    [q \in Reqs |-> IF q \in Range(failedQueue) THEN err ELSE reqErr[q]]

\* a request is issued through the OAuth client (part_010:805-828)
Send(r) ==
    /\ reqPc[r] = "idle"
    /\ client = "oauth"
    /\ reqPc' = [reqPc EXCEPT ![r] = "sent"]
    /\ reqAuth' = [reqAuth EXCEPT ![r] = oauthAccessToken]
    /\ attempts' = [attempts EXCEPT ![r] = @ + 1]
    /\ UNCHANGED <<isRefreshing, failedQueue, oauthAccessToken, oauthRefreshToken,
                   reqRetry, reqErr, newTokens, refreshError, issued, window, joined,
                   winCalls, winResult, winToken, joins, prompts>>
    /\ UNCHANGED <<apiToken, released>>
    /\ GateOnly

\* (response) => response (part_010:860)
Respond200(r) ==
    /\ reqPc[r] = "sent"
    /\ reqPc' = [reqPc EXCEPT ![r] = "done"]
    /\ UNCHANGED <<isRefreshing, failedQueue, oauthAccessToken, oauthRefreshToken,
                   reqRetry, reqAuth, reqErr, newTokens, refreshError, issued, window,
                   joined, winCalls, winResult, winToken, attempts, joins, prompts>>
    /\ UNCHANGED <<apiToken, released>>
    /\ GateOnly

\* a 401 for a request already marked _retry: return Promise.reject(error) (part_010:946)
Reject401(r) ==
    /\ reqPc[r] = "sent"
    /\ AlreadyRetried(r)
    /\ reqPc' = [reqPc EXCEPT ![r] = "rejected"]
    /\ reqErr' = [reqErr EXCEPT ![r] = <<"Unauthorized", 0>>]
    /\ UNCHANGED <<isRefreshing, failedQueue, oauthAccessToken, oauthRefreshToken,
                   reqRetry, reqAuth, newTokens, refreshError, issued, window,
                   joined, winCalls, winResult, winToken, attempts, joins, prompts>>
    /\ UNCHANGED <<apiToken, released>>
    /\ GateOnly

\* a 401 while a refresh is in progress: the request is queued (part_010:865-874)
Enqueue(r) ==
    /\ reqPc[r] = "sent"
    /\ ~AlreadyRetried(r)
    /\ RefreshInProgress
    /\ reqRetry' = [reqRetry EXCEPT ![r] = TRUE]
    /\ failedQueue' = Append(failedQueue, r)
    /\ reqPc' = [reqPc EXCEPT ![r] = "queued"]
    /\ joined' = [joined EXCEPT ![r] = window]
    /\ joins' = [joins EXCEPT ![r] = @ + 1]
    /\ UNCHANGED <<isRefreshing, oauthAccessToken, oauthRefreshToken, reqAuth, reqErr,
                   newTokens, refreshError, issued, window, winCalls, winResult,
                   winToken, attempts, prompts>>
    /\ UNCHANGED <<apiToken, released>>
    /\ GateOnly

\* a 401 while no refresh is in progress: this request performs the refresh
\* (part_010:865-894); without a stored refresh token it throws into the catch
\* block (part_010:888-891, 917-924)
StartRefresh(r) ==
    /\ reqPc[r] = "sent"
    /\ ~AlreadyRetried(r)
    /\ ~RefreshInProgress
    /\ window < NumReqs   \* every request opens at most one window
    /\ reqRetry' = [reqRetry EXCEPT ![r] = TRUE]
    /\ isRefreshing' = TRUE
    /\ window' = window + 1
    /\ joined' = [joined EXCEPT ![r] = window + 1]
    /\ joins' = [joins EXCEPT ![r] = @ + 1]
    /\ IF StoredRefreshToken = NoToken
       THEN /\ refreshError' = [refreshError EXCEPT ![r] = <<"NoRefreshToken", window + 1>>]
            /\ reqPc' = [RejectedPc(<<"NoRefreshToken", window + 1>>) EXCEPT ![r] = "clearAccess"]
            /\ reqErr' = RejectedErr(<<"NoRefreshToken", window + 1>>)
            /\ released' = forEach(failedQueue)
            /\ failedQueue' = <<>>
            /\ winResult' = [winResult EXCEPT ![window + 1] = "fail"]
            /\ UNCHANGED winCalls
       ELSE /\ reqPc' = [reqPc EXCEPT ![r] = "refreshing"]
            /\ winCalls' = [winCalls EXCEPT ![window + 1] = @ + 1]
            /\ UNCHANGED <<refreshError, reqErr, failedQueue, winResult, released>>
    /\ UNCHANGED <<oauthAccessToken, oauthRefreshToken, reqAuth, newTokens, issued,
                   winToken, attempts, prompts>>
    /\ UNCHANGED apiToken
    /\ GateOnly

\* oauthService.refreshToken returns new tokens (part_010:894, part_011:258-282);
\* the refresh token is a new one or the one that was sent
RefreshOk(r) ==
    /\ reqPc[r] = "refreshing"
    /\ \E rt \in {issued + 1, oauthRefreshToken} :
           newTokens' = [newTokens EXCEPT ![r] = <<issued + 1, rt>>]
    /\ issued' = issued + 1
    /\ reqPc' = [reqPc EXCEPT ![r] = "updAccess"]
    /\ winResult' = [winResult EXCEPT ![joined[r]] = "ok"]
    /\ winToken' = [winToken EXCEPT ![joined[r]] = issued + 1]
    /\ UNCHANGED <<isRefreshing, failedQueue, oauthAccessToken, oauthRefreshToken,
                   reqRetry, reqAuth, reqErr, refreshError, window, joined, winCalls,
                   attempts, joins, prompts>>
    /\ UNCHANGED <<apiToken, released>>
    /\ GateOnly

\* await config.update('oauthAccessToken', accessToken) (part_010:897); the
\* configuration watcher reloads this.config (part_010:791-798)
UpdAccess(r) ==
    /\ reqPc[r] = "updAccess"
    /\ oauthAccessToken' = newTokens[r][1]
    /\ reqPc' = [reqPc EXCEPT ![r] = "updRefresh"]
    /\ UNCHANGED <<isRefreshing, failedQueue, oauthRefreshToken, reqRetry, reqAuth,
                   reqErr, newTokens, refreshError, issued, window, joined, winCalls,
                   winResult, winToken, attempts, joins, prompts>>
    /\ UNCHANGED <<apiToken, released>>
    /\ GateOnly

\* await config.update('oauthRefreshToken', newRefreshToken), then the queue is
\* released, the original request retried and isRefreshing reset (part_010:898-915,
\* 941-943); each released caller retries with the configured token (part_010:874-879)
UpdRefresh(r) ==
    /\ reqPc[r] = "updRefresh"
    /\ oauthRefreshToken' = newTokens[r][2]
    /\ reqPc' = [q \in Reqs |-> IF q = r \/ q \in Range(failedQueue) THEN "sent" ELSE reqPc[q]]
    /\ reqAuth' = [q \in Reqs |-> IF q = r THEN newTokens[r][1]
                                   ELSE IF q \in Range(failedQueue) THEN QueuedRetryToken
                                   ELSE reqAuth[q]]
    /\ attempts' = [q \in Reqs |-> IF q = r \/ q \in Range(failedQueue)
                                    THEN attempts[q] + 1 ELSE attempts[q]]
    /\ released' = forEach(failedQueue)
    /\ failedQueue' = <<>>
    /\ isRefreshing' = FALSE
    /\ UNCHANGED <<oauthAccessToken, reqRetry, reqErr, newTokens, refreshError, issued,
                   window, joined, winCalls, winResult, winToken, joins, prompts>>
    /\ UNCHANGED apiToken
    /\ GateOnly

\* oauthService.refreshToken throws: the queue is rejected and emptied
\* (part_010:917-924, part_011:283-285)
RefreshFail(r) ==
    /\ reqPc[r] = "refreshing"
    /\ refreshError' = [refreshError EXCEPT ![r] = <<"RefreshFailed", joined[r]>>]
    /\ reqPc' = [RejectedPc(<<"RefreshFailed", joined[r]>>) EXCEPT ![r] = "clearAccess"]
    /\ reqErr' = RejectedErr(<<"RefreshFailed", joined[r]>>)
    /\ released' = forEach(failedQueue)
    /\ failedQueue' = <<>>
    /\ winResult' = [winResult EXCEPT ![joined[r]] = "fail"]
    /\ UNCHANGED <<isRefreshing, oauthAccessToken, oauthRefreshToken, reqRetry, reqAuth,
                   newTokens, issued, window, joined, winCalls, winToken, attempts,
                   joins, prompts>>
    /\ UNCHANGED apiToken
    /\ GateOnly

\* await config.update('oauthAccessToken', '') (part_010:927)
ClearAccess(r) ==
    /\ reqPc[r] = "clearAccess"
    /\ oauthAccessToken' = ClearedAccessToken
    /\ reqPc' = [reqPc EXCEPT ![r] = "clearRefresh"]
    /\ UNCHANGED <<isRefreshing, failedQueue, oauthRefreshToken, reqRetry, reqAuth,
                   reqErr, newTokens, refreshError, issued, window, joined, winCalls,
                   winResult, winToken, attempts, joins, prompts>>
    /\ UNCHANGED <<apiToken, released>>
    /\ GateOnly

\* mutant: the prompt is shown for every caller of the window
showErrorMessage_perCaller(w) ==
    [prompts EXCEPT ![w] = @ + Cardinality({q \in Reqs : joined[q] = w})]

\* vscode.window.showErrorMessage('Jira authentication expired. ...') in the catch
\* block of the initiator of window w (part_010:930-938)
showErrorMessage(w) == [prompts EXCEPT ![w] = @ + 1]

\* await config.update('oauthRefreshToken', ''), the prompt, the rejection of the
\* initiator and the finally block (part_010:928-943)
ClearRefresh(r) ==
    /\ reqPc[r] = "clearRefresh"
    /\ oauthRefreshToken' = NoToken
    /\ prompts' = showErrorMessage(joined[r])
    /\ reqPc' = [reqPc EXCEPT ![r] = "rejected"]
    /\ reqErr' = [reqErr EXCEPT ![r] = refreshError[r]]
    /\ isRefreshing' = FALSE
    /\ UNCHANGED <<failedQueue, oauthAccessToken, reqRetry, reqAuth, newTokens,
                   refreshError, issued, window, joined, winCalls, winResult, winToken,
                   attempts, joins>>
    /\ UNCHANGED <<apiToken, released>>
    /\ GateOnly

NextGate ==
    \E r \in Reqs :
        \/ Send(r)
        \/ Respond200(r)
        \/ Reject401(r)
        \/ Enqueue(r)
        \/ StartRefresh(r)
        \/ RefreshOk(r)
        \/ UpdAccess(r)
        \/ UpdRefresh(r)
        \/ RefreshFail(r)
        \/ ClearAccess(r)
        \/ ClearRefresh(r)

\* the credits the server reports at sign-in, shown in the account label
\* (part_006:125-131)
SignInCredits == 1

\* the balances the server reports afterwards (part_006:223, 258)
Balances == {SignInCredits - 1, SignInCredits}

\* ------------------------------------------- MiraiAuthenticationProvider
InitMirai ==
    /\ mPendingAuth = None
    /\ mFlow = [f \in Flows |-> "idle"]
    /\ mErr = [f \in Flows |-> "none"]
    /\ mState = [f \in Flows |-> None]
    /\ mNotice = [f \in Flows |-> FALSE]
    /\ mTemp = [f \in Flows |-> None]
    /\ mSessions = <<>>
    /\ mStored = <<>>
    /\ mEvents = 0
    /\ mLastEvent = <<"none", <<>>>>
    /\ mSession = [f \in Flows |-> <<>>]
    /\ mRemoving = <<>>
    /\ mLastRemoved = None
    /\ mRefreshing = <<>>

\* the sign-in flow leaves removeSession calls alone
MiraiStoreUnchanged == UNCHANGED <<mLastEvent, mSession, mRemoving, mRefreshing, mLastRemoved>>

\* a promise is settled once: reject and resolve of a settled promise do nothing
MSettle(flow, f, to) == IF f # None /\ flow[f] = "waiting" THEN [flow EXCEPT ![f] = to] ELSE flow

MSettleErr(flow, err, f, e) ==
    IF f # None /\ flow[f] = "waiting" THEN [err EXCEPT ![f] = e] ELSE err

\* createSession up to await vscode.env.openExternal (part_006:53-68); flows are
\* numbered in the order they are started
MiraiCreateSession(f) ==
    /\ mFlow[f] = "idle"
    /\ \A g \in Flows : g < f => mFlow[g] # "idle"
    /\ \E st \in Nonces : mState' = [mState EXCEPT ![f] = st]
    /\ mFlow' = [mFlow EXCEPT ![f] = "opening"]
    /\ UNCHANGED <<mPendingAuth, mErr, mNotice, mTemp, mSessions, mStored, mEvents>>
    /\ MiraiStoreUnchanged
    /\ MiraiOnly

\* the browser was opened: the notification is shown and the flow is stored in
\* _pendingAuth (part_006:68-103)
MiraiOpened(f) ==
    /\ mFlow[f] = "opening"
    /\ mNotice' = [mNotice EXCEPT ![f] = TRUE]
    /\ mPendingAuth' = f
    /\ mFlow' = [mFlow EXCEPT ![f] = "waiting"]
    /\ UNCHANGED <<mErr, mState, mTemp, mSessions, mStored, mEvents>>
    /\ MiraiStoreUnchanged
    /\ MiraiOnly

\* the browser could not be opened (part_006:68-71, 152-158)
MiraiOpenFailed(f) ==
    /\ mFlow[f] = "opening"
    /\ mFlow' = [mFlow EXCEPT ![f] = "rejected"]
    /\ mErr' = [mErr EXCEPT ![f] = "OpenFailed"]
    /\ UNCHANGED <<mPendingAuth, mState, mNotice, mTemp, mSessions, mStored, mEvents>>
    /\ MiraiStoreUnchanged
    /\ MiraiOnly

\* the notification of flow f is answered with Cancel (part_006:76-83)
MiraiCancel(f) ==
    /\ mNotice[f]
    /\ mNotice' = [mNotice EXCEPT ![f] = FALSE]
    /\ mFlow' = MSettle(mFlow, mPendingAuth, "rejected")
    /\ mErr' = MSettleErr(mFlow, mErr, mPendingAuth, "Cancelled")
    /\ mPendingAuth' = None
    /\ UNCHANGED <<mState, mTemp, mSessions, mStored, mEvents>>
    /\ MiraiStoreUnchanged
    /\ MiraiOnly

\* the notification of flow f is dismissed without Cancel (part_006:76-77)
MiraiDismiss(f) ==
    /\ mNotice[f]
    /\ mNotice' = [mNotice EXCEPT ![f] = FALSE]
    /\ UNCHANGED <<mPendingAuth, mFlow, mErr, mState, mTemp, mSessions, mStored, mEvents>>
    /\ MiraiStoreUnchanged
    /\ MiraiOnly

\* state !== expectedState (part_006:327)
MiraiStateMismatch(state) == state # mState[mPendingAuth]

\* mutant: a callback with a token that finds no pending request is kept for the
\* flows that have not registered yet
MiraiHandleCallback_early(token, state, error) ==
    /\ IF mPendingAuth = None
       THEN /\ mFlow' = [f \in Flows |-> IF mFlow[f] = "opening" /\ token # None
                                          THEN "exchanging" ELSE mFlow[f]]
            /\ UNCHANGED <<mPendingAuth, mErr, mTemp>>
       ELSE /\ mPendingAuth' = None
            /\ IF token = None
               THEN /\ mFlow' = MSettle(mFlow, mPendingAuth, "rejected")
                    /\ mErr' = MSettleErr(mFlow, mErr, mPendingAuth, "NoToken")
                    /\ UNCHANGED mTemp
               ELSE IF MiraiStateMismatch(state)
               THEN /\ mFlow' = MSettle(mFlow, mPendingAuth, "rejected")
                    /\ mErr' = MSettleErr(mFlow, mErr, mPendingAuth, "StateMismatch")
                    /\ UNCHANGED mTemp
               ELSE /\ mFlow' = MSettle(mFlow, mPendingAuth, "exchanging")
                    /\ mTemp' = [mTemp EXCEPT ![mPendingAuth] = token]
                    /\ UNCHANGED mErr
    /\ UNCHANGED <<mState, mNotice, mSessions, mStored, mEvents>>
    /\ MiraiStoreUnchanged
    /\ MiraiOnly

\* handleCallback(uri) for a callback with query parameters token, state and error:
\* only token and state are read (part_006:301-335)
MiraiHandleCallback(token, state, error) ==
    /\ IF mPendingAuth = None
       THEN UNCHANGED <<mPendingAuth, mFlow, mErr, mTemp>>
       ELSE /\ mPendingAuth' = None
            /\ IF token = None
               THEN /\ mFlow' = MSettle(mFlow, mPendingAuth, "rejected")
                    /\ mErr' = MSettleErr(mFlow, mErr, mPendingAuth, "NoToken")
                    /\ UNCHANGED mTemp
               ELSE IF MiraiStateMismatch(state)
               THEN /\ mFlow' = MSettle(mFlow, mPendingAuth, "rejected")
                    /\ mErr' = MSettleErr(mFlow, mErr, mPendingAuth, "StateMismatch")
                    /\ UNCHANGED mTemp
               ELSE /\ mFlow' = MSettle(mFlow, mPendingAuth, "exchanging")
                    /\ mTemp' = [mTemp EXCEPT ![mPendingAuth] = token]
                    /\ UNCHANGED mErr
    /\ UNCHANGED <<mState, mNotice, mSessions, mStored, mEvents>>
    /\ MiraiStoreUnchanged
    /\ MiraiOnly

\* POST /api/vscode/auth answered: the session, id, token, scopes and the credits
\* of its account label, is pushed onto _sessions (part_006:117-137); the access
\* token issued for flow f is f
MiraiExchanged(f) ==
    /\ mFlow[f] = "exchanging"
    /\ \E u \in Users :
           /\ mSession' = [mSession EXCEPT ![f] = <<u, f, FlowScopes, SignInCredits>>]
           /\ mSessions' = Append(mSessions, <<u, f, FlowScopes, SignInCredits>>)
    /\ mFlow' = [mFlow EXCEPT ![f] = "storing"]
    /\ mLastRemoved' = None
    /\ UNCHANGED <<mPendingAuth, mErr, mState, mNotice, mTemp, mStored, mEvents,
                   mLastEvent, mRemoving, mRefreshing>>
    /\ MiraiOnly

\* mutant: the session is pushed before the answer of the exchange is looked at
MiraiExchangeFailed_pushed(f) ==
    /\ mFlow[f] = "exchanging"
    /\ mFlow' = [mFlow EXCEPT ![f] = "rejected"]
    /\ mErr' = [mErr EXCEPT ![f] = "ExchangeFailed"]
    /\ mSessions' = Append(mSessions, <<f, f, FlowScopes, SignInCredits>>)
    /\ UNCHANGED <<mPendingAuth, mState, mNotice, mTemp, mStored, mEvents>>
    /\ MiraiStoreUnchanged
    /\ MiraiOnly

\* POST /api/vscode/auth failed (part_006:119-121, 152-158)
MiraiExchangeFailed(f) ==
    /\ mFlow[f] = "exchanging"
    /\ mFlow' = [mFlow EXCEPT ![f] = "rejected"]
    /\ mErr' = [mErr EXCEPT ![f] = "ExchangeFailed"]
    /\ UNCHANGED <<mPendingAuth, mState, mNotice, mTemp, mSessions, mStored, mEvents>>
    /\ MiraiStoreUnchanged
    /\ MiraiOnly

\* await this.storeSessions() done: the event fires and the session is returned
\* (part_006:138-150, 290-297)
MiraiStoredSession(f) ==
    /\ mFlow[f] = "storing"
    /\ mStored' = mSessions
    /\ mEvents' = mEvents + 1
    /\ mLastEvent' = <<"added", mSession[f]>>
    /\ mFlow' = [mFlow EXCEPT ![f] = "resolved"]
    /\ UNCHANGED <<mPendingAuth, mErr, mState, mNotice, mTemp, mSessions, mSession,
                   mRemoving, mRefreshing, mLastRemoved>>
    /\ MiraiOnly

\* getSessions(scopes): return this._sessions (part_006:48-51)
MiraiGetSessions(scopes) == mSessions

\* this._sessions.findIndex(s => s.id === sessionId) (part_006:164)
RECURSIVE findIndex(_, _)
findIndex(sessions, id) ==
    IF sessions = <<>> THEN 0
    ELSE IF Head(sessions)[1] = id THEN 1
    ELSE IF findIndex(Tail(sessions), id) = 0 THEN 0
    ELSE 1 + findIndex(Tail(sessions), id)

\* this._sessions.splice(index, 1) (part_006:166)
splice(sessions, i) == SubSeq(sessions, 1, i - 1) \o SubSeq(sessions, i + 1, Len(sessions))

\* removeSession(sessionId) up to await this.storeSessions(); with no session of
\* that id the call returns at once (part_006:161-167)
MiraiRemoveSession(id) ==
    /\ IF findIndex(mSessions, id) > 0
       THEN /\ mSessions' = splice(mSessions, findIndex(mSessions, id))
            /\ mRemoving' = Append(mRemoving, mSessions[findIndex(mSessions, id)])
            /\ mLastRemoved' = None
       ELSE /\ mLastRemoved' = id
            /\ UNCHANGED <<mSessions, mRemoving>>
    /\ UNCHANGED <<mPendingAuth, mFlow, mErr, mState, mNotice, mTemp, mStored, mEvents,
                   mLastEvent, mSession, mRefreshing>>
    /\ MiraiOnly

\* await this.storeSessions() of the oldest removeSession call done: the removed
\* event fires (part_006:167-175, 290-297)
MiraiRemoveStored ==
    /\ mRemoving # <<>>
    /\ mStored' = mSessions
    /\ mEvents' = mEvents + 1
    /\ mLastEvent' = <<"removed", Head(mRemoving)>>
    /\ mRemoving' = Tail(mRemoving)
    /\ mLastRemoved' = Head(mRemoving)[1]
    /\ UNCHANGED <<mPendingAuth, mFlow, mErr, mState, mNotice, mTemp, mSessions, mSession,
                   mRefreshing>>
    /\ MiraiOnly

\* the session list with the label of the first session of that id, the one
\* _sessions.find returns, showing the given credits (part_006:206, 222-224, 243,
\* 257-260)
WithLabel(sessions, id, credits) ==
    [i \in 1..Len(sessions) |->
        IF i = findIndex(sessions, id)
        THEN <<sessions[i][1], sessions[i][2], sessions[i][3], credits>>
        ELSE sessions[i]]

\* deductCredits(sessionId, feature, amount) of a stored session, answered with the
\* new balance: the account label is rewritten and the result returned
\* (part_006:205-229)
MiraiDeductCredits(id, balance) ==
    /\ findIndex(mSessions, id) > 0
    /\ mSessions' = WithLabel(mSessions, id, balance)
    /\ UNCHANGED <<mPendingAuth, mFlow, mErr, mState, mNotice, mTemp, mStored, mEvents,
                   mLastEvent, mSession, mRemoving, mRefreshing, mLastRemoved>>
    /\ MiraiOnly

\* refreshSession(sessionId) of a stored session, answered with the user data: the
\* account label is rewritten, up to await this.storeSessions() (part_006:242-262)
MiraiRefreshSession(id, credits) ==
    /\ findIndex(mSessions, id) > 0
    /\ mEvents + Len(mRefreshing) < MaxFlows + MaxEvents
    /\ mSessions' = WithLabel(mSessions, id, credits)
    /\ mRefreshing' = Append(mRefreshing, id)
    /\ UNCHANGED <<mPendingAuth, mFlow, mErr, mState, mNotice, mTemp, mStored, mEvents,
                   mLastEvent, mSession, mRemoving, mLastRemoved>>
    /\ MiraiOnly

\* await this.storeSessions() of the oldest refreshSession call done: the changed
\* event fires (part_006:262-268, 290-297)
MiraiRefreshStored ==
    /\ mRefreshing # <<>>
    /\ mStored' = mSessions
    /\ mEvents' = mEvents + 1
    /\ mLastEvent' = <<"changed", Head(mRefreshing)>>
    /\ mRefreshing' = Tail(mRefreshing)
    /\ UNCHANGED <<mPendingAuth, mFlow, mErr, mState, mNotice, mTemp, mSessions, mSession,
                   mRemoving, mLastRemoved>>
    /\ MiraiOnly

NextMirai ==
    \/ \E f \in Flows :
           \/ MiraiCreateSession(f)
           \/ MiraiOpened(f)
           \/ MiraiOpenFailed(f)
           \/ MiraiCancel(f)
           \/ MiraiDismiss(f)
           \/ MiraiExchanged(f)
           \/ MiraiExchangeFailed(f)
           \/ MiraiStoredSession(f)
    \/ \E token \in {None, 1}, state \in Nonces \cup {None}, error \in BOOLEAN :
           MiraiHandleCallback(token, state, error)
    \/ \E id \in Users : MiraiRemoveSession(id)
    \/ MiraiRemoveStored

\* ------------------------------------- MiraiGitHubAuthenticationProvider
NoSession == <<>>

\* the provider after construction, no call made yet (part_005:14-21)
InitGitHubCalls ==
    /\ gPendingAuth = None
    /\ gFlow = [f \in Flows |-> "idle"]
    /\ gErr = [f \in Flows |-> "none"]
    /\ gState = [f \in Flows |-> None]
    /\ gTimeout = [f \in Flows |-> FALSE]
    /\ gStoring = [f \in Flows |-> NoSession]
    /\ gEvents = 0
    /\ gLastEvent = <<"none", NoSession>>
    /\ gReplaced = [f \in Flows |-> FALSE]
    /\ gPatCall = <<"idle", NoToken, None>>
    /\ gPatRemove = <<"idle", NoSession>>
    /\ gRemoving = <<>>

\* first activation: globalState and the secret storage hold nothing
InitGitHub ==
    /\ InitGitHubCalls
    /\ gSessions = <<>>
    /\ gPat = NoToken
    /\ gPatInfo = None

\* the OAuth flow leaves the personal access token alone
GitHubStoreUnchanged == UNCHANGED <<gPat, gPatInfo, gPatCall, gPatRemove, gRemoving>>

\* the query parameter token: absent, not decodable, or the encoding of
\* {githubId, githubAccessToken} (part_005:133-146)
CallbackTokens ==
    {<<"none", 0, 0>>, <<"bad", 0, 0>>} \cup {<<"ok", u, t>> : u \in Users, t \in AccessTokens}

\* sessions.filter(s => s.id !== id) (part_005:162)
RECURSIVE WithoutId(_, _)
WithoutId(sessions, id) ==
    IF sessions = <<>> THEN <<>>
    ELSE IF Head(sessions)[1] = id THEN WithoutId(Tail(sessions), id)
    ELSE <<Head(sessions)>> \o WithoutId(Tail(sessions), id)

\* the session id 'pat', which no account id equals (part_005:71, 214, 254)
PatId == 0

\* the scopes of the session built for a stored token (part_005:205, 251)
PatScopes == {"repo", "read:user", "user:email", "read:org"}

\* getPATSession(): the session of a stored token whose user info is stored too
\* (part_005:235-262)
getPATSession ==
    IF gPat = NoToken \/ gPatInfo = None THEN NoSession
    ELSE <<PatId, gPat, PatScopes>>

\* mutant: the listing leaves out the stored OAuth sessions
GitHubGetSessions_patOnly(scopes) ==
    IF getPATSession # NoSession THEN <<getPATSession>> ELSE <<>>

\* getSessions(scopes): the stored sessions and the PAT session, filtered by the
\* scopes unless none are given (part_005:23-39)
GitHubGetSessions(scopes) ==
    LET allSessions == IF getPATSession # NoSession
                       THEN Append(gSessions, getPATSession)
                       ELSE gSessions
    IN  IF scopes = {} THEN allSessions
        ELSE SelectSeq(allSessions, LAMBDA s : s[1] = PatId \/ scopes \subseteq s[3])

\* createSession up to await vscode.env.openExternal (part_005:41-52); flows are
\* numbered in the order they are started
GitHubCreateSession(f) ==
    /\ gFlow[f] = "idle"
    /\ \A g \in Flows : g < f => gFlow[g] # "idle"
    /\ \E st \in Nonces : gState' = [gState EXCEPT ![f] = st]
    /\ gFlow' = [gFlow EXCEPT ![f] = "opening"]
    /\ UNCHANGED <<gPendingAuth, gErr, gTimeout, gStoring, gSessions, gEvents>>
    /\ UNCHANGED <<gLastEvent, gReplaced>>
    /\ GitHubStoreUnchanged
    /\ GitHubOnly

\* mutant: the flow is stored without a timer
GitHubOpened_noTimer(f) ==
    /\ gFlow[f] = "opening"
    /\ gPendingAuth' = f
    /\ gFlow' = [gFlow EXCEPT ![f] = "waiting"]
    /\ UNCHANGED <<gTimeout, gErr, gState, gStoring, gSessions, gEvents>>
    /\ UNCHANGED <<gLastEvent, gReplaced>>
    /\ GitHubStoreUnchanged
    /\ GitHubOnly

\* the browser was opened: the timer is set and the flow is stored in _pendingAuth
\* (part_005:58-66)
GitHubOpened(f) ==
    /\ gFlow[f] = "opening"
    /\ gTimeout' = [gTimeout EXCEPT ![f] = TRUE]
    /\ gPendingAuth' = f
    /\ gFlow' = [gFlow EXCEPT ![f] = "waiting"]
    /\ UNCHANGED <<gErr, gState, gStoring, gSessions, gEvents>>
    /\ UNCHANGED <<gLastEvent, gReplaced>>
    /\ GitHubStoreUnchanged
    /\ GitHubOnly

\* the browser could not be opened (part_005:52-56)
GitHubOpenFailed(f) ==
    /\ gFlow[f] = "opening"
    /\ gFlow' = [gFlow EXCEPT ![f] = "rejected"]
    /\ gErr' = [gErr EXCEPT ![f] = "OpenFailed"]
    /\ UNCHANGED <<gPendingAuth, gState, gTimeout, gStoring, gSessions, gEvents>>
    /\ UNCHANGED <<gLastEvent, gReplaced>>
    /\ GitHubStoreUnchanged
    /\ GitHubOnly

\* the timer of flow f fires: reject(new Error('GitHub authentication timed out'))
\* (part_005:60-62)
GitHubTimeout(f) ==
    /\ gTimeout[f]
    /\ gTimeout' = [gTimeout EXCEPT ![f] = FALSE]
    /\ gFlow' = MSettle(gFlow, f, "rejected")
    /\ gErr' = MSettleErr(gFlow, gErr, f, "Timeout")
    /\ UNCHANGED <<gPendingAuth, gState, gStoring, gSessions, gEvents>>
    /\ UNCHANGED <<gLastEvent, gReplaced>>
    /\ GitHubStoreUnchanged
    /\ GitHubOnly

\* mutant: the state of the callback is not compared
GitHubInvalidResponse_noState(token, state) == token[1] = "none"

\* !token || !state || state !== pendingAuth.state (part_005:128)
GitHubInvalidResponse(token, state) ==
    token[1] = "none" \/ state = None \/ state # gState[gPendingAuth]

\* handleCallback(uri) with query parameters token, state and error, up to
\* await globalState.update (part_005:105-166)
GitHubHandleCallback(token, state, error) ==
    /\ IF gPendingAuth = None
       THEN UNCHANGED <<gPendingAuth, gFlow, gErr, gTimeout, gStoring, gSessions>>
       ELSE /\ gTimeout' = [gTimeout EXCEPT ![gPendingAuth] = FALSE]
            /\ gPendingAuth' = None
            /\ IF error
               THEN /\ gFlow' = MSettle(gFlow, gPendingAuth, "rejected")
                    /\ gErr' = MSettleErr(gFlow, gErr, gPendingAuth, "Denied")
                    /\ UNCHANGED <<gStoring, gSessions>>
               ELSE IF GitHubInvalidResponse(token, state)
               THEN /\ gFlow' = MSettle(gFlow, gPendingAuth, "rejected")
                    /\ gErr' = MSettleErr(gFlow, gErr, gPendingAuth, "InvalidResponse")
                    /\ UNCHANGED <<gStoring, gSessions>>
               ELSE IF token[1] = "bad"
               THEN /\ gFlow' = MSettle(gFlow, gPendingAuth, "rejected")
                    /\ gErr' = MSettleErr(gFlow, gErr, gPendingAuth, "DecodeFailed")
                    /\ UNCHANGED <<gStoring, gSessions>>
               ELSE /\ gSessions' = Append(WithoutId(gSessions, token[2]),
                                           <<token[2], token[3], FlowScopes>>)
                    /\ gStoring' = [gStoring EXCEPT
                                      ![gPendingAuth] = <<token[2], token[3], FlowScopes>>]
                    /\ UNCHANGED <<gFlow, gErr>>
    /\ gReplaced' = IF /\ gPendingAuth # None
                       /\ ~error
                       /\ ~GitHubInvalidResponse(token, state)
                       /\ token[1] = "ok"
                    THEN [gReplaced EXCEPT ![gPendingAuth] =
                             \E i \in 1..Len(gSessions) : gSessions[i][1] = token[2]]
                    ELSE gReplaced
    /\ UNCHANGED <<gState, gEvents, gLastEvent>>
    /\ GitHubStoreUnchanged
    /\ GitHubOnly

\* await globalState.update done: the event fires and the pending promise is
\* resolved (part_005:166-174)
GitHubCallbackStored(f) ==
    /\ gStoring[f] # NoSession
    /\ gEvents' = gEvents + 1
    /\ gLastEvent' = <<"added", gStoring[f]>>
    /\ UNCHANGED gReplaced
    /\ gFlow' = MSettle(gFlow, f, "resolved")
    /\ gStoring' = [gStoring EXCEPT ![f] = NoSession]
    /\ UNCHANGED <<gPendingAuth, gErr, gState, gTimeout, gSessions>>
    /\ GitHubStoreUnchanged
    /\ GitHubOnly

\* the OAuth flow state, which the session store calls leave alone
gitHubFlowVars == <<gPendingAuth, gFlow, gErr, gState, gTimeout, gStoring, gReplaced>>

\* createSessionFromPAT(token) up to await fetch('https://api.github.com/user')
\* (part_005:184-193)
PatStart(token) ==
    /\ gPatCall[1] \in {"idle", "created", "failed"}
    /\ gEvents < MaxEvents
    /\ gPatCall' = <<"validating", token, None>>
    /\ UNCHANGED <<gSessions, gEvents, gLastEvent, gPat, gPatInfo, gPatRemove, gRemoving>>
    /\ UNCHANGED gitHubFlowVars
    /\ GitHubOnly

\* mutant: the token is stored although the lookup was rejected
PatLookupRejected_stores ==
    /\ gPatCall[1] = "validating"
    /\ gPat' = gPatCall[2]
    /\ gPatCall' = <<"failed", gPatCall[2], None>>
    /\ UNCHANGED <<gSessions, gEvents, gLastEvent, gPatInfo, gPatRemove, gRemoving>>
    /\ UNCHANGED gitHubFlowVars
    /\ GitHubOnly

\* the lookup is not answered ok: 'Invalid GitHub Personal Access Token' is thrown
\* and rethrown as 'Failed to validate Personal Access Token' (part_005:195-197,
\* 228-230)
PatLookupRejected ==
    /\ gPatCall[1] = "validating"
    /\ gPatCall' = <<"failed", gPatCall[2], None>>
    /\ UNCHANGED <<gSessions, gEvents, gLastEvent, gPat, gPatInfo, gPatRemove, gRemoving>>
    /\ UNCHANGED gitHubFlowVars
    /\ GitHubOnly

\* the lookup is answered ok with the user; secrets.store is called
\* (part_005:199-202)
PatLookupOk(user) ==
    /\ gPatCall[1] = "validating"
    /\ gPatCall' = <<"storingSecret", gPatCall[2], user>>
    /\ UNCHANGED <<gSessions, gEvents, gLastEvent, gPat, gPatInfo, gPatRemove, gRemoving>>
    /\ UNCHANGED gitHubFlowVars
    /\ GitHubOnly

\* the secret storage has stored the token (part_005:202)
PatSecretStored ==
    /\ gPatCall[1] = "storingSecret"
    /\ gPat' = gPatCall[2]
    /\ gPatCall' = <<"secretStored", gPatCall[2], gPatCall[3]>>
    /\ UNCHANGED <<gSessions, gEvents, gLastEvent, gPatInfo, gPatRemove, gRemoving>>
    /\ UNCHANGED gitHubFlowVars
    /\ GitHubOnly

\* await secrets.store returns: the user info is written to globalState
\* (part_005:204-208)
PatInfoStored ==
    /\ gPatCall[1] = "secretStored"
    /\ gPatInfo' = gPatCall[3]
    /\ gPatCall' = <<"storingInfo", gPatCall[2], gPatCall[3]>>
    /\ UNCHANGED <<gSessions, gEvents, gLastEvent, gPat, gPatRemove, gRemoving>>
    /\ UNCHANGED gitHubFlowVars
    /\ GitHubOnly

\* await globalState.update returns: the added event fires and the session is
\* returned (part_005:210-227)
PatCreated ==
    /\ gPatCall[1] = "storingInfo"
    /\ gEvents' = gEvents + 1
    /\ gLastEvent' = <<"added", <<PatId, gPatCall[2], PatScopes>>>>
    /\ gPatCall' = <<"created", gPatCall[2], gPatCall[3]>>
    /\ UNCHANGED <<gSessions, gPat, gPatInfo, gPatRemove, gRemoving>>
    /\ UNCHANGED gitHubFlowVars
    /\ GitHubOnly

\* getPATSession() finds a token without user info and deletes it
\* (part_005:235-250); getSessions calls it (part_005:28)
PatCleanup ==
    /\ gPat # NoToken
    /\ gPatInfo = None
    /\ gPat' = NoToken
    /\ UNCHANGED <<gSessions, gEvents, gLastEvent, gPatInfo, gPatCall, gPatRemove, gRemoving>>
    /\ UNCHANGED gitHubFlowVars
    /\ GitHubOnly

\* sessions.find(s => s.id === sessionId) (part_005:88)
find(sessions, id) == sessions[CHOOSE i \in 1..Len(sessions) :
                                 sessions[i][1] = id /\ \A j \in 1..(i - 1) : sessions[j][1] # id]

\* removeSession(sessionId) of an OAuth session up to await globalState.update
\* (part_005:69-71, 86-91)
GitHubRemoveSession(id) ==
    /\ gSessions' = WithoutId(gSessions, id)
    /\ IF \E i \in 1..Len(gSessions) : gSessions[i][1] = id
       THEN gRemoving' = Append(gRemoving, find(gSessions, id))
       ELSE UNCHANGED gRemoving
    /\ UNCHANGED <<gEvents, gLastEvent, gPat, gPatInfo, gPatCall, gPatRemove>>
    /\ UNCHANGED gitHubFlowVars
    /\ GitHubOnly

\* await globalState.update of the oldest such call returns: the removed event
\* fires (part_005:91-99)
GitHubRemoveStored ==
    /\ gRemoving # <<>>
    /\ gEvents' = gEvents + 1
    /\ gLastEvent' = <<"removed", Head(gRemoving)>>
    /\ gRemoving' = Tail(gRemoving)
    /\ UNCHANGED <<gSessions, gPat, gPatInfo, gPatCall, gPatRemove>>
    /\ UNCHANGED gitHubFlowVars
    /\ GitHubOnly

\* removeSession('pat'): getPATSession() is read (deleting a token without user
\* info) and secrets.delete is called (part_005:71-73, 235-262)
GitHubRemovePat ==
    /\ gPatRemove[1] = "idle"
    /\ gPatRemove' = <<"deleting", getPATSession>>
    /\ gPat' = IF gPatInfo = None THEN NoToken ELSE gPat
    /\ UNCHANGED <<gSessions, gEvents, gLastEvent, gPatInfo, gPatCall, gRemoving>>
    /\ UNCHANGED gitHubFlowVars
    /\ GitHubOnly

\* the secret is deleted and the user info is cleared (part_005:73-74)
GitHubRemovePatDeleted ==
    /\ gPatRemove[1] = "deleting"
    /\ gPat' = NoToken
    /\ gPatInfo' = None
    /\ gPatRemove' = <<"clearing", gPatRemove[2]>>
    /\ UNCHANGED <<gSessions, gEvents, gLastEvent, gPatCall, gRemoving>>
    /\ UNCHANGED gitHubFlowVars
    /\ GitHubOnly

\* await globalState.update returns: the removed event fires if a PAT session
\* had been read (part_005:76-83)
GitHubRemovePatDone ==
    /\ gPatRemove[1] = "clearing"
    /\ IF gPatRemove[2] # NoSession
       THEN /\ gEvents' = gEvents + 1
            /\ gLastEvent' = <<"removed", gPatRemove[2]>>
       ELSE UNCHANGED <<gEvents, gLastEvent>>
    /\ gPatRemove' = <<"idle", NoSession>>
    /\ UNCHANGED <<gSessions, gPat, gPatInfo, gPatCall, gRemoving>>
    /\ UNCHANGED gitHubFlowVars
    /\ GitHubOnly

\* the calls on the session store of the GitHub provider
NextGitHubStore ==
    \/ \E token \in AccessTokens : PatStart(token)
    \/ PatLookupRejected
    \/ \E user \in Users : PatLookupOk(user)
    \/ PatSecretStored
    \/ PatInfoStored
    \/ PatCreated
    \/ PatCleanup
    \/ \E id \in Users : GitHubRemoveSession(id)
    \/ GitHubRemoveStored
    \/ GitHubRemovePat
    \/ GitHubRemovePatDeleted
    \/ GitHubRemovePatDone

NextGitHub ==
    \/ \E f \in Flows :
           \/ GitHubCreateSession(f)
           \/ GitHubOpened(f)
           \/ GitHubOpenFailed(f)
           \/ GitHubTimeout(f)
           \/ GitHubCallbackStored(f)
    \/ \E token \in CallbackTokens, state \in Nonces \cup {None}, error \in BOOLEAN :
           GitHubHandleCallback(token, state, error)

\* ------------------------------------------------------ FigmaOAuthService
FigmaState == "mirai-figma-auth"

\* the state parameter buildAuthUrl puts in the authorize URL of call f
\* (figmaOAuthService.ts:121-132)
buildAuthUrlState(f) == FigmaState

\* call f got as far as building its authorize URL: its handler was registered
\* (figmaOAuthService.ts:69-112)
FigmaUrlBuilt(f) == fFlow[f] \notin {"idle", "preparing"} /\ fErr[f] # "AlreadyRegistered"

InitFigma ==
    /\ fFlow = [f \in Flows |-> "idle"]
    /\ fErr = [f \in Flows |-> "none"]
    /\ fHandler = [f \in Flows |-> FALSE]
    /\ fTimer = [f \in Flows |-> FALSE]
    /\ fExchanging = [f \in Flows |-> FALSE]
    /\ figmaAccessToken = NoToken
    /\ fLog = {}
    /\ fApiLog = {}

\* the access token issued for call t as a string of TokenLen characters
TokenLen == 12

TokenText(t) == [i \in 1..TokenLen |-> t]

\* String.prototype.substring(a, b) on a string held as a sequence
substring(s, a, b) == SubSeq(s, a + 1, IF b < Len(s) THEN b ELSE Len(s))

\* the entry console.log writes after the token endpoint answered: tokenPrefix,
\* tokenLength and fullResponse, the response body (figmaOAuthService.ts:157-163)
ExchangeLogEntry(data) ==
    <<substring(data.access_token, 0, 10), Len(data.access_token), data>>

\* what getRecentFiles writes to the console: this.accessToken, which
\* updateAccessToken keeps equal to the configured token (part_011:675-677, 751-753)
RecentFilesLogEntry == TokenText(figmaAccessToken)

FigmaLogUnchanged == UNCHANGED <<fLog, fApiLog>>

\* mutant: one uriHandler field shared by all calls
FigmaCleanup_shared(f) == [g \in Flows |-> FALSE]

\* cleanup(): dispose this.uriHandler of the instance (figmaOAuthService.ts:171-176)
FigmaCleanup(f) == [fHandler EXCEPT ![f] = FALSE]

\* the sign-in command creates a service and calls authenticate(), which awaits
\* asExternalUri (extension.ts:107-128, figmaOAuthService.ts:59-67)
FigmaAuthenticate(f) ==
    /\ fFlow[f] = "idle"
    /\ \A g \in Flows : g < f => fFlow[g] # "idle"
    /\ fFlow' = [fFlow EXCEPT ![f] = "preparing"]
    /\ UNCHANGED <<fErr, fHandler, fTimer, fExchanging, figmaAccessToken>>
    /\ FigmaLogUnchanged
    /\ FigmaOnly

\* the promise executor: registerUriHandler, openExternal, setTimeout
\* (figmaOAuthService.ts:69-118). The host allows one URI handler per extension:
\* registerUriHandler throws while another one is registered, which rejects the
\* promise.
FigmaRegister(f) ==
    /\ fFlow[f] = "preparing"
    /\ IF \E g \in Flows : fHandler[g]
       THEN /\ fFlow' = [fFlow EXCEPT ![f] = "rejected"]
            /\ fErr' = [fErr EXCEPT ![f] = "AlreadyRegistered"]
            /\ UNCHANGED <<fHandler, fTimer>>
       ELSE /\ fFlow' = [fFlow EXCEPT ![f] = "waiting"]
            /\ fHandler' = [fHandler EXCEPT ![f] = TRUE]
            /\ fTimer' = [fTimer EXCEPT ![f] = TRUE]
            /\ UNCHANGED fErr
    /\ UNCHANGED <<fExchanging, figmaAccessToken>>
    /\ FigmaLogUnchanged
    /\ FigmaOnly

\* handleUri of the registered handler h with query parameters code, error and
\* state, up to await exchangeCodeForToken (figmaOAuthService.ts:72-100)
FigmaHandleUri(h, code, error, state) ==
    /\ fHandler[h]
    /\ fHandler' = FigmaCleanup(h)
    /\ IF error
       THEN /\ fFlow' = MSettle(fFlow, h, "rejected")
            /\ fErr' = MSettleErr(fFlow, fErr, h, "Denied")
            /\ UNCHANGED fExchanging
       ELSE IF code = None
       THEN /\ fFlow' = MSettle(fFlow, h, "rejected")
            /\ fErr' = MSettleErr(fFlow, fErr, h, "NoCode")
            /\ UNCHANGED fExchanging
       ELSE IF state # FigmaState
       THEN /\ fFlow' = MSettle(fFlow, h, "rejected")
            /\ fErr' = MSettleErr(fFlow, fErr, h, "InvalidState")
            /\ UNCHANGED fExchanging
       ELSE /\ fExchanging' = [fExchanging EXCEPT ![h] = TRUE]
            /\ UNCHANGED <<fFlow, fErr>>
    /\ UNCHANGED <<fTimer, figmaAccessToken>>
    /\ FigmaLogUnchanged
    /\ FigmaOnly

\* exchangeCodeForToken logged the response and returned the token: resolve(token)
\* (figmaOAuthService.ts:100-101, 157-165)
FigmaExchanged(f) ==
    /\ fExchanging[f]
    /\ fExchanging' = [fExchanging EXCEPT ![f] = FALSE]
    /\ fFlow' = MSettle(fFlow, f, "resolved")
    /\ fLog' = fLog \cup {ExchangeLogEntry([access_token |-> TokenText(f)])}
    /\ UNCHANGED <<fErr, fHandler, fTimer, figmaAccessToken, fApiLog>>
    /\ FigmaOnly

\* exchangeCodeForToken threw: cleanup and reject(err) (figmaOAuthService.ts:102-105)
FigmaExchangeFailed(f) ==
    /\ fExchanging[f]
    /\ fExchanging' = [fExchanging EXCEPT ![f] = FALSE]
    /\ fHandler' = FigmaCleanup(f)
    /\ fFlow' = MSettle(fFlow, f, "rejected")
    /\ fErr' = MSettleErr(fFlow, fErr, f, "ExchangeFailed")
    /\ UNCHANGED <<fTimer, figmaAccessToken>>
    /\ FigmaLogUnchanged
    /\ FigmaOnly

\* the timer of call f fires: cleanup and reject (figmaOAuthService.ts:114-117)
FigmaTimeout(f) ==
    /\ fTimer[f]
    /\ fTimer' = [fTimer EXCEPT ![f] = FALSE]
    /\ fHandler' = FigmaCleanup(f)
    /\ fFlow' = MSettle(fFlow, f, "rejected")
    /\ fErr' = MSettleErr(fFlow, fErr, f, "Timeout")
    /\ UNCHANGED <<fExchanging, figmaAccessToken>>
    /\ FigmaLogUnchanged
    /\ FigmaOnly

\* the command saves the token authenticate() resolved with (extension.ts:128-140);
\* the token issued for call f is f
FigmaSaveToken(f) ==
    /\ fFlow[f] = "resolved"
    /\ fFlow' = [fFlow EXCEPT ![f] = "saved"]
    /\ figmaAccessToken' = f
    /\ UNCHANGED <<fErr, fHandler, fTimer, fExchanging>>
    /\ FigmaLogUnchanged
    /\ FigmaOnly

\* FigmaApiService.getRecentFiles up to its debug log: checkAccessToken throws
\* when no token is configured (part_011:684-687, 751-753)
FigmaGetRecentFiles ==
    /\ figmaAccessToken # NoToken
    /\ fApiLog' = fApiLog \cup {RecentFilesLogEntry}
    /\ UNCHANGED <<fFlow, fErr, fHandler, fTimer, fExchanging, figmaAccessToken, fLog>>
    /\ FigmaOnly

NextFigma ==
    \/ \E f \in Flows :
           \/ FigmaAuthenticate(f)
           \/ FigmaRegister(f)
           \/ FigmaExchanged(f)
           \/ FigmaExchangeFailed(f)
           \/ FigmaTimeout(f)
           \/ FigmaSaveToken(f)
    \/ FigmaGetRecentFiles
    \/ \E h \in Flows, code \in {None, 1}, error \in BOOLEAN,
          state \in {FigmaState, "other"} :
           FigmaHandleUri(h, code, error, state)

\* ------------------------------------------------------ GlobalAuthService
\* the refreshAuthState calls: the constructor's and one per session-change event
Calls == 1..(MaxEvents + 1)

NoAuth == <<FALSE, None, None>>

\* the service after construction: the fields are cleared and the constructor's
\* refreshAuthState call awaits getSessions (globalAuthService.ts:42-64)
InitGlobal ==
    /\ aPc = [c \in Calls |-> IF c = 1 THEN "awaiting" ELSE "idle"]
    /\ aSessions = [c \in Calls |-> <<>>]
    /\ aState = NoAuth
    /\ aSeen = 0

\* a session-change event of provider 'mirai' reaches the listener, which calls
\* refreshAuthState (globalAuthService.ts:57-62, 86-90)
GlobalOnDidChangeSessions(c) ==
    /\ aSeen < mEvents
    /\ aPc[c] = "idle"
    /\ \A d \in Calls : d < c => aPc[d] # "idle"
    /\ aSeen' = aSeen + 1
    /\ aPc' = [aPc EXCEPT ![c] = "awaiting"]
    /\ UNCHANGED <<aSessions, aState>>
    /\ UNCHANGED <<gateVars, miraiVars, githubVars, figmaVars>>

\* authenticationService.getSessions('mirai') has reached the provider, whose
\* getSessions answers with its session list (part_006:48-51); the answer is on its
\* way back to the awaiting call (globalAuthService.ts:90)
GlobalGetSessionsAnswered(c) ==
    /\ aPc[c] = "awaiting"
    /\ aSessions' = [aSessions EXCEPT ![c] = MiraiGetSessions({})]
    /\ aPc' = [aPc EXCEPT ![c] = "answered"]
    /\ UNCHANGED <<aState, aSeen>>
    /\ UNCHANGED <<gateVars, miraiVars, githubVars, figmaVars>>

\* the fields refreshAuthState sets from the sessions it got: the first session's
\* token and account, or clearAuth() (globalAuthService.ts:92-105, 118-123)
AuthStateOf(sessions) ==
    IF Len(sessions) > 0 THEN <<TRUE, sessions[1][2], sessions[1][1]>> ELSE NoAuth

\* await getSessions returns in call c: the fields are set (globalAuthService.ts:90-110)
GlobalRefreshed(c) ==
    /\ aPc[c] = "answered"
    /\ aState' = AuthStateOf(aSessions[c])
    /\ aPc' = [aPc EXCEPT ![c] = "done"]
    /\ UNCHANGED <<aSessions, aSeen>>
    /\ UNCHANGED <<gateVars, miraiVars, githubVars, figmaVars>>

\* await getSessions throws in call c: clearAuth() (globalAuthService.ts:112-123)
GlobalRefreshFailed(c) ==
    /\ aPc[c] = "awaiting"
    /\ aState' = NoAuth
    /\ aPc' = [aPc EXCEPT ![c] = "failed"]
    /\ UNCHANGED <<aSessions, aSeen>>
    /\ UNCHANGED <<gateVars, miraiVars, githubVars, figmaVars>>

Init == InitGate /\ InitMirai /\ InitGitHub /\ InitFigma /\ InitGlobal

\* ---------------------------------------------------------- specifications
SpecGate == Init /\ [][NextGate]_vars

\* sessions as handleCallback stores them: at most one per account id
StoredSessions ==
    {<<>>} \cup {<<<<u, t, FlowScopes>>>> : u \in Users, t \in AccessTokens}
           \cup {<<<<u, t, FlowScopes>>, <<v, w, FlowScopes>>>> :
                    u \in Users, t \in AccessTokens, v \in Users, w \in AccessTokens}

\* a later activation: globalState and the secret storage hold what earlier runs
\* left, including a token without user info (part_005:245-250)
InitStore ==
    /\ InitGate /\ oauthRefreshToken # NoToken /\ ~apiToken
    /\ InitMirai
    /\ InitFigma
    /\ InitGlobal
    /\ InitGitHubCalls
    /\ gSessions \in {ss \in StoredSessions : Len(ss) = 2 => ss[1][1] # ss[2][1]}
    /\ gPat \in {NoToken} \cup AccessTokens
    /\ gPatInfo \in {None} \cup Users
    /\ gPat = NoToken => gPatInfo = None

SpecGitHubStore == InitStore /\ [][NextGitHubStore]_vars

\* createSessionFromPAT calls with getSessions calls running in between
\* (part_005:23-39, 184-262)
NextPatSessions ==
    \/ \E token \in AccessTokens : PatStart(token)
    \/ PatLookupRejected
    \/ \E user \in Users : PatLookupOk(user)
    \/ PatSecretStored
    \/ PatInfoStored
    \/ PatCreated
    \/ PatCleanup

SpecPatSessions == InitStore /\ [][NextPatSessions]_vars

\* the providers are checked with the Jira configuration fully set
InitAuth == Init /\ oauthRefreshToken # NoToken /\ ~apiToken

SpecMirai == InitAuth /\ [][NextMirai]_vars

SpecGitHub == InitAuth /\ [][NextGitHub]_vars

SpecFigma == InitAuth /\ [][NextFigma]_vars

\* both providers of the mirai-auth extension, each run exercising one of them
\* (extension.ts:31-42 routes /auth-callback and /github-callback); with an error
\* parameter the GitHub handler reads nothing else (part_005:122-125), and the
\* Mirai handler never reads it (part_006:303-305)
MiraiUnused == \A f \in Flows : mFlow[f] = "idle"

GitHubUnused == \A f \in Flows : gFlow[f] = "idle"

NextProviders ==
    \/ \E f \in Flows :
           \/ GitHubUnused /\ MiraiCreateSession(f)
           \/ GitHubUnused /\ MiraiOpened(f)
           \/ GitHubUnused /\ MiraiOpenFailed(f)
           \/ GitHubUnused /\ MiraiCancel(f)
           \/ GitHubUnused /\ MiraiDismiss(f)
           \/ GitHubUnused /\ MiraiExchanged(f)
           \/ GitHubUnused /\ MiraiExchangeFailed(f)
           \/ GitHubUnused /\ MiraiStoredSession(f)
           \/ MiraiUnused /\ GitHubCreateSession(f)
           \/ MiraiUnused /\ GitHubOpened(f)
           \/ MiraiUnused /\ GitHubOpenFailed(f)
           \/ MiraiUnused /\ GitHubTimeout(f)
           \/ MiraiUnused /\ GitHubCallbackStored(f)
    \/ \E token \in {None, 1}, state \in Nonces \cup {None} :
           GitHubUnused /\ MiraiHandleCallback(token, state, FALSE)
    \/ \E token \in CallbackTokens, state \in Nonces \cup {None} :
           MiraiUnused /\ GitHubHandleCallback(token, state, FALSE)
    \/ MiraiUnused /\ GitHubHandleCallback(<<"none", 0, 0>>, None, TRUE)

SpecProviders == InitAuth /\ [][NextProviders]_vars

\* the paths a callback URI of the extension may carry
Paths == {"/auth-callback", "/github-callback", "/other"}

\* mutant: every callback is routed to the Mirai provider
RouteOf_mirai(path) == "mirai"

\* the provider the URI handler passes a callback to, by its path
\* (extension.ts:35-39)
RouteOf(path) ==
    IF path = "/auth-callback" THEN "mirai"
    ELSE IF path = "/github-callback" THEN "github"
    ELSE "none"

\* the URI handler of the extension; query.get('token') is null or a string, which
\* the Mirai provider takes as the temporary token (extension.ts:32-41,
\* part_006:304-306)
handleUri(path, token, state, error) ==
    IF RouteOf(path) = "mirai"
    THEN MiraiHandleCallback(IF token[1] = "none" THEN None ELSE 1, state, error)
    ELSE IF RouteOf(path) = "github"
    THEN GitHubHandleCallback(token, state, error)
    ELSE UNCHANGED vars

\* only the first flow of a provider and only the first Jira request are used
OneFlow(flow, f) == \A g \in Flows \ {f} : flow[g] = "idle"

OneReq(r) == \A q \in Reqs : r <= q

\* the query parameters <<token, state, error>> of the callbacks: with an error
\* nothing else is read (part_005:122-125); one access token value
IsoQueries ==
    {<<token, state, FALSE>> :
        token \in {<<"none", 0, 0>>, <<"bad", 0, 0>>} \cup {<<"ok", u, 1>> : u \in Users},
        state \in Nonces \cup {None}}
    \cup {<<<<"none", 0, 0>>, None, TRUE>>}

\* the Jira service and both providers of mirai-auth side by side, with one
\* sign-in per provider and one Jira request
NextIsolation ==
    \/ \E path \in Paths, q \in IsoQueries : handleUri(path, q[1], q[2], q[3])
    \/ \E f \in Flows :
           \/ OneFlow(mFlow, f) /\ MiraiCreateSession(f)
           \/ OneFlow(mFlow, f) /\ MiraiOpened(f)
           \/ OneFlow(mFlow, f) /\ MiraiExchanged(f)
           \/ OneFlow(mFlow, f) /\ MiraiStoredSession(f)
           \/ OneFlow(gFlow, f) /\ GitHubCreateSession(f)
           \/ OneFlow(gFlow, f) /\ GitHubOpened(f)
           \/ OneFlow(gFlow, f) /\ GitHubCallbackStored(f)
    \/ \E id \in Users :
           \/ MiraiRemoveSession(id)
           \/ GitHubRemoveSession(id)
    \/ MiraiRemoveStored
    \/ GitHubRemoveStored
    \/ \E r \in Reqs :
           \/ OneReq(r) /\ Send(r)
           \/ OneReq(r) /\ StartRefresh(r)
           \/ OneReq(r) /\ RefreshOk(r)
           \/ OneReq(r) /\ UpdAccess(r)
           \/ OneReq(r) /\ UpdRefresh(r)
           \/ OneReq(r) /\ RefreshFail(r)
           \/ OneReq(r) /\ ClearAccess(r)
           \/ OneReq(r) /\ ClearRefresh(r)

SpecIsolation == InitAuth /\ [][NextIsolation]_vars

\* the global service next to the Mirai provider, with one sign-in and the removal
\* of its session
NextGlobalAuth ==
    \/ \E f \in Flows :
           \/ OneFlow(mFlow, f) /\ MiraiCreateSession(f)
           \/ OneFlow(mFlow, f) /\ MiraiOpened(f)
           \/ OneFlow(mFlow, f) /\ MiraiExchanged(f)
           \/ OneFlow(mFlow, f) /\ MiraiStoredSession(f)
    \/ \E state \in Nonces : MiraiHandleCallback(1, state, FALSE)
    \/ \E id \in Users : MiraiRemoveSession(id)
    \/ MiraiRemoveStored
    \/ \E c \in Calls :
           \/ GlobalOnDidChangeSessions(c)
           \/ GlobalGetSessionsAnswered(c)
           \/ GlobalRefreshed(c)
           \/ GlobalRefreshFailed(c)

SpecGlobalAuth == InitAuth /\ [][NextGlobalAuth]_vars

\* flows of one provider that are started and never get a callback or a
\* cancellation: openExternal returns and armed timers fire
\* sign-in, sign-out, credit deduction and refresh of the Mirai sessions
NextMiraiStore ==
    \/ \E f \in Flows :
           \/ OneFlow(mFlow, f) /\ MiraiCreateSession(f)
           \/ OneFlow(mFlow, f) /\ MiraiOpened(f)
           \/ OneFlow(mFlow, f) /\ MiraiExchanged(f)
           \/ OneFlow(mFlow, f) /\ MiraiStoredSession(f)
    \/ \E state \in Nonces : MiraiHandleCallback(1, state, FALSE)
    \/ \E id \in Users : MiraiRemoveSession(id)
    \/ MiraiRemoveStored
    \/ \E id \in Users, balance \in Balances : MiraiDeductCredits(id, balance)
    \/ \E id \in Users, credits \in Balances : MiraiRefreshSession(id, credits)
    \/ MiraiRefreshStored

SpecMiraiStore == InitAuth /\ [][NextMiraiStore]_vars

\* no Figma sign-in was started
FigmaUnused == \A f \in Flows : fFlow[f] = "idle"

\* sign-in flows of one provider at a time whose callbacks carry a token or code,
\* with exchanges that succeed or fail
NextExchange ==
    \/ \E f \in Flows :
           \/ FigmaUnused /\ MiraiCreateSession(f)
           \/ FigmaUnused /\ MiraiOpened(f)
           \/ FigmaUnused /\ MiraiExchanged(f)
           \/ FigmaUnused /\ MiraiExchangeFailed(f)
           \/ FigmaUnused /\ MiraiStoredSession(f)
           \/ MiraiUnused /\ FigmaAuthenticate(f)
           \/ MiraiUnused /\ FigmaRegister(f)
           \/ MiraiUnused /\ FigmaExchanged(f)
           \/ MiraiUnused /\ FigmaExchangeFailed(f)
           \/ MiraiUnused /\ FigmaTimeout(f)
    \/ \E state \in Nonces : FigmaUnused /\ MiraiHandleCallback(1, state, FALSE)
    \/ \E h \in Flows, state \in {FigmaState, "other"} :
           MiraiUnused /\ FigmaHandleUri(h, 1, FALSE, state)

SpecExchange == InitAuth /\ [][NextExchange]_vars

NextNoCallback ==
    \E f \in Flows :
        \/ GitHubUnused /\ MiraiCreateSession(f)
        \/ GitHubUnused /\ MiraiOpened(f)
        \/ GitHubUnused /\ MiraiOpenFailed(f)
        \/ MiraiUnused /\ GitHubCreateSession(f)
        \/ MiraiUnused /\ GitHubOpened(f)
        \/ MiraiUnused /\ GitHubOpenFailed(f)
        \/ MiraiUnused /\ GitHubTimeout(f)

FairNoCallback ==
    \A f \in Flows :
        /\ WF_vars(MiraiOpened(f) \/ MiraiOpenFailed(f))
        /\ WF_vars(GitHubOpened(f) \/ GitHubOpenFailed(f))
        /\ WF_vars(GitHubTimeout(f))

SpecNoCallback == InitAuth /\ [][NextNoCallback]_vars /\ FairNoCallback

\* ------------------------------------------------- refresh gate: properties
RefreshesInFlight == Cardinality({r \in Reqs : reqPc[r] = "refreshing"})

WindowClosed(w) == w < window \/ ~isRefreshing

NoRefreshTokenIn(w) == \E r \in Reqs : refreshError[r] = <<"NoRefreshToken", w>>

\* C1 (as stated): at most one refresh call is in flight, and every refresh window
\* (one or more requests handling a 401 together) makes exactly one refresh call.
C1_ExactlyOneRefreshCall ==
    /\ RefreshesInFlight <= 1
    /\ \A w \in 1..window : winCalls[w] = 1

\* C1 (amended): at most one refresh call is in flight; a refresh window makes
\* exactly one refresh call when a refresh token is stored and none when no
\* refresh token is stored.
C1_AtMostOneRefreshCall ==
    /\ RefreshesInFlight <= 1
    /\ \A w \in 1..window : winCalls[w] = IF NoRefreshTokenIn(w) THEN 0 ELSE 1

C1_Witness ==
    \E w \in 1..window :
        /\ Cardinality({r \in Reqs : joined[r] = w}) >= 2
        /\ winCalls[w] = 1
        /\ WindowClosed(w)

\* C2 (as stated): once a refresh window is over, every request that entered it has
\* the outcome of its refresh: after a successful refresh it was retried exactly
\* once with the access token that refresh returned, after a failed one it is
\* rejected with that refresh's error.
C2_SameOutcome ==
    \A q \in Reqs :
        (joined[q] # 0 /\ WindowClosed(joined[q])) =>
            /\ winResult[joined[q]] = "ok" =>
                   attempts[q] = 2 /\ reqAuth[q] = winToken[joined[q]]
            /\ winResult[joined[q]] = "fail" =>
                   /\ reqPc[q] = "rejected"
                   /\ reqErr[q][2] = joined[q]
                   /\ reqErr[q][1] \in {"RefreshFailed", "NoRefreshToken"}

\* C10: a request is sent at most twice (one retry) and starts or joins at most one
\* refresh; a retry happens only after the request went through a refresh, and a
\* request rejected for its second 401 stays out of the queue.
C10_OneRefreshOneRetry ==
    \A r \in Reqs :
        /\ attempts[r] <= 2
        /\ joins[r] <= 1
        /\ attempts[r] = 2 => joins[r] = 1 /\ reqRetry[r]
        /\ reqErr[r] = <<"Unauthorized", 0>> =>
               reqPc[r] = "rejected" /\ r \notin Range(failedQueue)

C10_Witness ==
    \E r \in Reqs :
        /\ attempts[r] = 2
        /\ reqPc[r] = "rejected"
        /\ reqErr[r] = <<"Unauthorized", 0>>

\* ------------------------------------------- authorization flows: properties
Settled == {"resolved", "rejected"}

\* C3: a callback whose state differs from the state of the pending request (or has
\* none) resolves no request, starts no exchange and creates or changes no session,
\* in the Mirai provider and in the GitHub provider.
C3_MismatchNeverResolves ==
    [][/\ \/ /\ \A f \in Flows : mFlow'[f] \in {"exchanging", "storing", "resolved"}
                                     => mFlow'[f] = mFlow[f]
             /\ UNCHANGED <<mTemp, mSessions, mStored, mEvents, githubVars>>
          \/ \A token \in {None, 1}, state \in Nonces \cup {None} :
                ~ /\ mPendingAuth # None
                  /\ state # mState[mPendingAuth]
                  /\ MiraiHandleCallback(token, state, FALSE)
       /\ \/ /\ \A f \in Flows : gFlow'[f] = "resolved" => gFlow[f] = "resolved"
             /\ UNCHANGED <<gStoring, gSessions, gEvents, miraiVars>>
          \/ \A token \in CallbackTokens, state \in Nonces \cup {None}, error \in BOOLEAN :
                ~ /\ gPendingAuth # None
                  /\ state # gState[gPendingAuth]
                  /\ GitHubHandleCallback(token, state, error)
      ]_vars

C3_Witness ==
    \E f \in Flows : mFlow[f] = "rejected" /\ mErr[f] = "StateMismatch"

\* C4 (as stated): when a second flow is registered as pending while an earlier
\* flow of the provider is pending, the earlier flow is settled with Superseded.
C4_EarlierFlowSuperseded ==
    [][\A f1 \in Flows, f2 \in Flows :
          (f1 # f2 /\ mPendingAuth = f1 /\ mFlow[f1] = "waiting" /\ mPendingAuth' = f2)
          => (mFlow'[f1] = "rejected" /\ mErr'[f1] = "Superseded")
      ]_vars

\* C5 (as stated): after the timeout of a flow has fired, a callback with the
\* state of that flow, a decodable token and no error stores, replaces or removes
\* no session.
C5_CallbackAfterTimeoutIsNoOp ==
    [][\A f \in Flows, token \in CallbackTokens :
          (/\ gFlow[f] = "rejected" /\ gErr[f] = "Timeout"
           /\ gPendingAuth = f
           /\ token[1] = "ok"
           /\ GitHubHandleCallback(token, gState[f], FALSE))
          => UNCHANGED <<gSessions, gStoring, gEvents>>
      ]_vars

\* C6 (as stated): a callback carrying the state of a flow F1 that has timed out
\* neither resolves nor rejects a later pending flow F2 (with another state) and
\* creates no session.
C6_LateCallbackLeavesLaterFlow ==
    [][\A f1 \in Flows, f2 \in Flows, token \in CallbackTokens :
          (/\ f1 < f2
           /\ gFlow[f1] = "rejected" /\ gErr[f1] = "Timeout"
           /\ gPendingAuth = f2 /\ gFlow[f2] = "waiting"
           /\ gState[f1] # gState[f2]
           /\ token[1] = "ok"
           /\ GitHubHandleCallback(token, gState[f1], FALSE))
          => UNCHANGED <<gFlow, gErr, gSessions, gStoring>>
      ]_vars

\* C7: an authenticate() call is settled once; a later settlement attempt on it -
\* its timer firing or its exchange completing after it was settled - rejects and
\* resolves nothing, disposes no URI handler and leaves the stored token unchanged.
C7_SettledOnce ==
    [][\A f \in Flows :
          /\ fFlow[f] = "rejected" => (fFlow'[f] = "rejected" /\ fErr'[f] = fErr[f])
          /\ fFlow[f] \in {"resolved", "saved"} =>
                 (fFlow'[f] \in {"resolved", "saved"} /\ fErr'[f] = fErr[f])
          /\ (fFlow[f] \in {"resolved", "saved", "rejected"} /\ FigmaTimeout(f))
                 => UNCHANGED <<fFlow, fErr, fHandler, fExchanging, figmaAccessToken>>
          /\ (/\ fFlow[f] \in {"resolved", "saved", "rejected"}
              /\ (FigmaExchanged(f) \/ FigmaExchangeFailed(f)))
                 => UNCHANGED <<fFlow, fErr, fHandler, fTimer, figmaAccessToken>>
      ]_vars

C7_Witness ==
    \E f1 \in Flows, f2 \in Flows :
        /\ fFlow[f1] \in {"resolved", "saved"}
        /\ ~fTimer[f1]
        /\ fHandler[f2]

C9_AtMostOneLive ==
    Cardinality({f \in Flows : gFlow[f] = "waiting" /\ gStoring[f] = NoSession}) <= 1

\* ------------------------------------------------ refresh gate: session removal
\* C11 (as stated): when the retry of a request that went through a successful
\* refresh is answered 401 again, the stored access and refresh tokens are removed
\* and the re-authentication prompt is shown.
C11_SecondFailureRemovesSession ==
    [][\A r \in Reqs :
          (/\ joined[r] # 0
           /\ winResult[joined[r]] = "ok"
           /\ Reject401(r))
          => /\ oauthAccessToken' = NoToken
             /\ oauthRefreshToken' = NoToken
             /\ prompts' # prompts
      ]_vars

\* C12 (as stated): when the handling of a failed refresh (or of a missing refresh
\* token) ends, both stored tokens are cleared and isConfigured() reports false.
C12_FailureUnconfigures ==
    [][\A r \in Reqs :
          ClearRefresh(r)
          => /\ oauthAccessToken' = NoToken
             /\ oauthRefreshToken' = NoToken
             /\ ~isConfigured'
      ]_vars

\* C12 (amended): when the handling of a failed refresh (or of a missing refresh
\* token) ends, both stored tokens are cleared and the service no longer reports
\* OAuth; isConfigured() reports false exactly if no API token credentials are
\* configured, otherwise the service has fallen back to them.
C12_FailureRemovesOAuthSession ==
    [][\A r \in Reqs :
          ClearRefresh(r)
          => /\ oauthAccessToken' = NoToken
             /\ oauthRefreshToken' = NoToken
             /\ getAuthMethod' # "oauth"
             /\ isConfigured' = apiToken
             /\ apiToken => client' = "token"
      ]_vars

C12_Witness ==
    \E r \in Reqs :
        /\ reqPc[r] = "rejected"
        /\ reqErr[r] = <<"RefreshFailed", joined[r]>>
        /\ refreshError[r] = reqErr[r]
        /\ oauthAccessToken = NoToken
        /\ oauthRefreshToken = NoToken
        /\ ~apiToken
        /\ ~isConfigured

\* ------------------------------------------------- session stores: properties
\* C13 (as stated, last part): a removeSession(id) called right after a
\* removeSession(id) call has completed changes no session and fires no event.
C13_RemoveTwiceSameAsOnce ==
    [][\A id \in Users :
          (mLastRemoved = id /\ mRemoving = <<>> /\ MiraiRemoveSession(id))
          => UNCHANGED <<mSessions, mStored, mRemoving, mEvents, mLastEvent>>
      ]_vars

\* C14 (as stated): a provider's session store holds at most one session per
\* subject id.
C14_OneSessionPerSubject ==
    /\ \A i, j \in 1..Len(mSessions) : mSessions[i][1] = mSessions[j][1] => i = j
    /\ \A i, j \in 1..Len(mStored) : mStored[i][1] = mStored[j][1] => i = j
    /\ \A i, j \in 1..Len(gSessions) : gSessions[i][1] = gSessions[j][1] => i = j

\* C15 (as stated): the event fired for a stored session is `changed` when the
\* session replaced an existing session of the same subject and `added` otherwise.
C15_EventKindMatches ==
    [][\A f \in Flows :
          GitHubCallbackStored(f)
          => /\ gEvents' = gEvents + 1
             /\ gLastEvent' = <<IF gReplaced[f] THEN "changed" ELSE "added", gStoring[f]>>
      ]_vars

\* C16 (as stated): getSessions with a scope filter returns exactly the sessions
\* whose scopes contain every scope of the filter, plus the PAT session; with an
\* empty filter it returns all sessions.
C16_ScopeFilter ==
    \A filter \in ScopeFilters :
        /\ MiraiGetSessions(filter) =
               SelectSeq(mSessions, LAMBDA s : filter \subseteq s[3])
        /\ GitHubGetSessions(filter) =
               SelectSeq(GitHubGetSessions({}),
                         LAMBDA s : s[1] = PatId \/ filter \subseteq s[3])

C19_PatOnlyAfterLookup ==
    [][/\ PatLookupRejected
          => /\ gPatCall'[1] = "failed"
             /\ UNCHANGED <<gPat, gPatInfo, gSessions, gEvents, gLastEvent>>
       /\ (gPat' # gPat /\ gPat' # NoToken)
          => /\ gPatCall[1] = "storingSecret"
             /\ gPatCall[3] \in Users
             /\ gPat' = gPatCall[2]
       /\ (gPatInfo' # gPatInfo /\ gPatInfo' # None)
          => /\ gPatCall[1] = "secretStored"
             /\ gPatInfo' = gPatCall[3]
       /\ (gEvents' # gEvents /\ gLastEvent' = <<"added", <<PatId, gPatCall[2], PatScopes>>>>)
          => /\ gPatCall[1] = "storingInfo"
             /\ gPatCall'[1] = "created"
             /\ gEvents' = gEvents + 1
       /\ gPatCall'[1] = "created" => gPatCall[1] \in {"storingInfo", "created"}
      ]_vars

C19_Witness ==
    /\ gPatCall[1] = "failed"
    /\ gPat # NoToken
    /\ gPat # gPatCall[2]
    /\ gPatInfo # None
    /\ gSessions # <<>>

\* ------------------------------------------------------ provider isolation
\* the stored tokens and sessions of each provider
miraiStore == <<mSessions, mStored>>

githubStore == <<gSessions, gPat, gPatInfo>>

jiraStore == <<oauthAccessToken, oauthRefreshToken, apiToken>>

\* C18: a callback on /auth-callback leaves the pending request, the flows and the
\* sessions of the GitHub provider and the Jira tokens unchanged, a callback on
\* /github-callback those of the Mirai provider and the Jira tokens; a Jira token
\* refresh and a removeSession of one provider leave the other providers unchanged.
C18_ProvidersIsolated ==
    [][/\ \/ UNCHANGED <<githubVars, gateVars>>
          \/ \A q \in IsoQueries : ~handleUri("/auth-callback", q[1], q[2], q[3])
       /\ \/ UNCHANGED <<miraiVars, gateVars>>
          \/ \A q \in IsoQueries : ~handleUri("/github-callback", q[1], q[2], q[3])
       /\ \/ UNCHANGED <<miraiVars, githubVars, figmaAccessToken>>
          \/ \A r \in Reqs :
                ~ \/ StartRefresh(r) \/ RefreshOk(r) \/ UpdAccess(r) \/ UpdRefresh(r)
                  \/ RefreshFail(r) \/ ClearAccess(r) \/ ClearRefresh(r)
       /\ \/ UNCHANGED <<githubVars, jiraStore, figmaAccessToken>>
          \/ ~ \/ \E id \in Users : MiraiRemoveSession(id)
              \/ MiraiRemoveStored
       /\ \/ UNCHANGED <<miraiVars, jiraStore, figmaAccessToken>>
          \/ ~ \/ \E id \in Users : GitHubRemoveSession(id)
              \/ GitHubRemoveStored
      ]_vars

C18_Witness ==
    \E f \in Flows, g \in Flows :
        /\ mFlow[f] = "exchanging"
        /\ gPendingAuth = g
        /\ gFlow[g] = "waiting"
        /\ oauthAccessToken = NoToken

\* C20: no entry of a debug log holds a full access token, nor a token-endpoint
\* response holding one: what is logged about a token is at most a truncated
\* preview.
C20_NoFullTokenLogged ==
    \A t \in Flows :
        /\ \A e \in fLog : /\ e[1] # TokenText(t)
                            /\ e[3].access_token # TokenText(t)
        /\ TokenText(t) \notin fApiLog

\* C21: when the user cancels the notification of an authorization flow that is
\* still waiting for its callback, that flow's request is rejected as cancelled
\* and the provider has no pending request afterwards, so that a later callback
\* for the flow is ignored.
C21_CancelRejectsFlow ==
    [][\A f \in Flows :
           \/ /\ mFlow'[f] = "rejected"
              /\ mErr'[f] = "Cancelled"
              /\ mPendingAuth' = None
           \/ ~(mNotice[f] /\ mFlow[f] = "waiting" /\ MiraiCancel(f))]_vars

\* C22: a callback carrying an error parameter that arrives for a pending request
\* rejects that request with Denied, starts no exchange and creates no session,
\* also when it carries a token or code and the matching state as well.
C22_ErrorCallbackDenied ==
    [][/\ \/ /\ mPendingAuth # None
             /\ mFlow[mPendingAuth] = "waiting"
                    => /\ mFlow'[mPendingAuth] = "rejected"
                       /\ mErr'[mPendingAuth] = "Denied"
             /\ UNCHANGED <<mTemp, mSessions, mStored>>
          \/ \A token \in {None, 1}, state \in Nonces \cup {None} :
                ~ /\ mPendingAuth # None
                  /\ MiraiHandleCallback(token, state, TRUE)
       /\ \/ /\ gPendingAuth # None
             /\ gFlow[gPendingAuth] = "waiting"
                    => /\ gFlow'[gPendingAuth] = "rejected"
                       /\ gErr'[gPendingAuth] = "Denied"
             /\ UNCHANGED <<gStoring, gSessions>>
          \/ \A token \in CallbackTokens, state \in Nonces \cup {None} :
                ~ /\ gPendingAuth # None
                  /\ GitHubHandleCallback(token, state, TRUE)
       /\ \A h \in Flows :
             \/ /\ fFlow[h] = "waiting" => fFlow'[h] = "rejected" /\ fErr'[h] = "Denied"
                /\ UNCHANGED <<fExchanging, figmaAccessToken>>
             \/ \A code \in {None, 1}, state \in {FigmaState, "other"} :
                   ~ /\ fHandler[h]
                     /\ FigmaHandleUri(h, code, TRUE, state)
      ]_vars

\* C23: every started authorization flow gets a state value that differs from the
\* state of every earlier flow of the same provider.
C23_FreshNonce ==
    \A f, g \in Flows :
        (f < g /\ FigmaUrlBuilt(f) /\ FigmaUrlBuilt(g))
            => buildAuthUrlState(f) # buildAuthUrlState(g)

\* every response arrives and every awaited call of the interceptor returns; sending
\* a request is up to the callers (part_010:859-948)
FairGate ==
    \A r \in Reqs :
        /\ WF_vars(Respond200(r) \/ Reject401(r) \/ Enqueue(r) \/ StartRefresh(r))
        /\ WF_vars(RefreshOk(r) \/ RefreshFail(r))
        /\ WF_vars(UpdAccess(r))
        /\ WF_vars(UpdRefresh(r))
        /\ WF_vars(ClearAccess(r))
        /\ WF_vars(ClearRefresh(r))

SpecGateFair == Init /\ [][NextGate]_vars /\ FairGate

\* C24: the callers queued during a refresh are released in the order in which they
\* were queued, after a successful refresh and after a failed one.
C24_ReleasedInQueueOrder ==
    [][(failedQueue # <<>> /\ failedQueue' = <<>>) => released' = failedQueue]_vars

C24_Witness ==
    /\ Len(released) >= 2
    /\ failedQueue = <<>>
    /\ released[1] > released[2]
    /\ \A i \in 1..Len(released) : reqErr[released[i]][1] = "RefreshFailed"

\* C25: every request placed in the waiter queue is eventually released, retried or
\* rejected, also when it was queued while the cleanup of a failed refresh was
\* still running.
C25_QueuedEventuallyReleased ==
    \A r \in Reqs : (reqPc[r] = "queued") ~> (reqPc[r] # "queued")

\* C26: whenever no refresh is in progress the waiter queue is empty.
C26_IdleQueueEmpty == ~isRefreshing => failedQueue = <<>>

\* C27: a request that has been settled, by a callback, by its deadline or by
\* cancellation, is no longer registered in the pending slot of its provider.
C27_SettledNotPending ==
    \A f \in Flows :
        /\ gFlow[f] \in {"resolved", "rejected"} => gPendingAuth # f
        /\ mFlow[f] \in {"exchanging", "storing", "resolved", "rejected"} => mPendingAuth # f

\* C28: with getSessions calls interleaved, when createSessionFromPAT returns its
\* session the token secret and the user info are both stored and getSessions lists
\* the personal-token session with the token of the call.
C28_PatSessionListedOnReturn ==
    [][PatCreated
         => /\ gPat' = gPatCall[2]
            /\ gPatInfo' = gPatCall[3]
            /\ \E i \in 1..Len(GitHubGetSessions({})') :
                   GitHubGetSessions({})'[i] = <<PatId, gPatCall[2], PatScopes>>]_vars

\* C29: cancelling the notification shown for one flow while another flow of the
\* provider is the pending one neither rejects that other flow nor clears its
\* pending slot.
C29_CancelOnlyOwnFlow ==
    [][\A f \in Flows :
           \/ UNCHANGED <<mFlow, mErr, mPendingAuth>>
           \/ ~(mPendingAuth # None /\ mPendingAuth # f /\ MiraiCancel(f))]_vars

\* C30: once every refreshAuthState call has returned, every session-change event
\* has started its call and no session change is still being stored, the global
\* state is the one of the provider's current session list: authenticated, with
\* the first session's token and account, exactly when a session exists.
C30_GlobalStateCurrent ==
    (/\ \A c \in Calls : aPc[c] \in {"idle", "done"}
     /\ aSeen = mEvents
     /\ mStored = mSessions
     /\ mRemoving = <<>>)
        => aState = AuthStateOf(MiraiGetSessions({}))

\* C31: the session store is written through: whenever no createSession,
\* removeSession or refreshSession call is between its change of the session list
\* and the end of its storeSessions, the persisted 'mirai-sessions' value equals the
\* in-memory session list. deductCredits rewrites the account label and returns
\* without storing, so the two differ.
C31_WrittenThrough ==
    (/\ \A f \in Flows : mFlow[f] # "storing"
     /\ mRemoving = <<>>
     /\ mRefreshing = <<>>)
        => mStored = mSessions

\* C32 as stated: when the exchange of an accepted callback fails the awaiting
\* caller is rejected with an error, no session is stored, no event fires and the
\* provider has no pending request afterwards. A flow registered while the exchange
\* was under way is still registered when the exchange fails.
C32_SlotEmptyAfterFailure ==
    [][\A f \in Flows :
          /\ \/ /\ mFlow'[f] = "rejected" /\ mErr'[f] # "none"
                /\ UNCHANGED <<mSessions, mStored, mEvents>>
                /\ mPendingAuth' = None
             \/ ~MiraiExchangeFailed(f)
          /\ \/ /\ fFlow'[f] = "rejected" /\ fErr'[f] # "none"
                /\ UNCHANGED figmaAccessToken
                /\ \A g \in Flows : ~fHandler'[g]
             \/ ~FigmaExchangeFailed(f)
      ]_vars

\* C32: when the exchange of an accepted callback fails the awaiting caller is
\* rejected with an error, no session is pushed or stored for the flow, no event
\* fires and the request of the failed flow is not registered afterwards: the
\* pending slot is empty or holds the request of another flow, registered since the
\* callback. A session is pushed only by a flow whose exchange succeeded, and a Figma token is resolved
\* only by a call whose exchange succeeded.
C32_ExchangeFailureRejects ==
    [][/\ \A f \in Flows :
          /\ \/ /\ mFlow'[f] = "rejected" /\ mErr'[f] # "none"
                /\ UNCHANGED <<mSessions, mStored, mEvents>>
                /\ mPendingAuth' # f
             \/ ~MiraiExchangeFailed(f)
          /\ \/ /\ fFlow'[f] = "rejected" /\ fErr'[f] # "none"
                /\ UNCHANGED figmaAccessToken
                /\ ~fHandler'[f]
             \/ ~FigmaExchangeFailed(f)
          /\ mErr'[f] = "ExchangeFailed" => mSession'[f] = <<>>
          /\ fErr'[f] = "ExchangeFailed" => fFlow'[f] = "rejected"
       /\ \/ mSessions' = mSessions
          \/ \E f \in Flows : /\ mFlow[f] = "exchanging" /\ mFlow'[f] = "storing"
                               /\ mSessions' = Append(mSessions, mSession'[f])
      ]_vars

\* the exchange of one Mirai flow failed while another flow is registered
C32_Witness ==
    \E f \in Flows :
        /\ mFlow[f] = "rejected" /\ mErr[f] = "ExchangeFailed"
        /\ mPendingAuth \notin {None, f}
        /\ mSessions = <<>>

\* C33: the re-authentication prompt is shown once for a failed refresh, however
\* many callers were queued on it, and never for a refresh that did not fail; a
\* window makes at most one refresh call; a caller rejected with the error of a
\* failed refresh was sent once, entered that one refresh and is not sent again.
C33_OnePromptNoFurtherRefresh ==
    /\ \A w \in Reqs :
           /\ prompts[w] <= 1
           /\ prompts[w] = 1 => winResult[w] = "fail"
           /\ (winResult[w] = "fail" /\ WindowClosed(w)) => prompts[w] = 1
           /\ winCalls[w] <= 1
    /\ \A q \in Reqs :
           reqErr[q][1] \in {"RefreshFailed", "NoRefreshToken"} =>
               /\ reqPc[q] = "rejected"
               /\ winResult[reqErr[q][2]] = "fail"
               /\ attempts[q] = 1
               /\ joins[q] = 1

\* a refresh call failed with two callers queued on it: all three requests are
\* rejected with its error and the prompt was shown once
C33_Witness ==
    \E w \in Reqs :
        /\ winResult[w] = "fail" /\ winCalls[w] = 1
        /\ prompts[w] = 1
        /\ \A q \in Reqs : reqPc[q] = "rejected" /\ reqErr[q] = <<"RefreshFailed", w>>

\* C34: a callback handled while the _pendingAuth of its provider is empty changes
\* nothing, whatever token, state and error it carries: no step that changes a
\* session, a stored value, an event, a flow or a pending request is the step of
\* such a callback, so a flow started or registered later finds the provider as it
\* was.
C34_NoPendingCallbackIgnored ==
    [][/\ \/ mPendingAuth # None
          \/ \A token \in {None, 1}, state \in Nonces \cup {None}, error \in BOOLEAN :
                 ~MiraiHandleCallback(token, state, error)
       /\ \/ gPendingAuth # None
          \/ \A token \in CallbackTokens \cup {<<"none", 0, 0>>},
                state \in Nonces \cup {None}, error \in BOOLEAN :
                 ~GitHubHandleCallback(token, state, error)
      ]_vars

\* neither provider has a pending request: the Mirai flow has not registered yet
\* and the GitHub sign-in is complete; a callback handled now finds no request
C34_Witness ==
    /\ mPendingAuth = None
    /\ \E f \in Flows : mFlow[f] = "opening"
    /\ gPendingAuth = None
    /\ gSessions # <<>>
    /\ \E f \in Flows : gFlow[f] = "resolved"
====
